---- MODULE Spec2Model ----
(***************************************************************************)
(* Model of the configuration file reader of lxc (src/lxc/confile.c).      *)
(*                                                                         *)
(* Text is a sequence of one-character strings, so that strncmp, strstr,   *)
(* the trimming helpers, atoi and inet_pton are computed character by      *)
(* character as the C code computes them.  A C pointer that may be NULL is *)
(* a sequence of length 0 (NULL) or 1 (the pointed-to value).              *)
(* Allocations (malloc, strdup) are taken to succeed.                      *)
(*                                                                         *)
(* conf     the struct lxc_conf handed to lxc_config_read                  *)
(* status   "reading" while lxc_file_for_each_line loops, then "returned"  *)
(* result   the value the loop returns                                     *)
(* nread    number of calls of parse_line so far                           *)
(* pending  the part of the current line of the file not yet read, when    *)
(*          the line did not fit in the buffer                             *)
(* hostLE   TRUE on a little-endian build, FALSE on a big-endian one       *)
(* last, rets, cglog   history: the last line parse_line was called on     *)
(*          with its tokens and result, the result of every call, and the  *)
(*          (key, value) of every lxc.cgroup line that returned 0          *)
(***************************************************************************)
EXTENDS Integers, Sequences, FiniteSets, TLC

VARIABLES conf, status, result, nread, pending, last, rets, cglog, hostLE

vars == <<conf, status, result, nread, pending, last, rets, cglog, hostLE>>

(***************************************************************************)
(* Bounds and platform constants                                           *)
(***************************************************************************)
MaxLines == 3

MAXPATHLEN == 4096

IFNAMSIZ == 16

NODENAMESIZE == 65

IFF_UP == 1

NULL == << >>

Ptr(x) == <<x>>

Rep(n) == [i \in 1..n |-> "a"]

(***************************************************************************)
(* C string helpers                                                        *)
(***************************************************************************)
strlen(s) == Len(s)

\* strncmp(name, key, strlen(name)) == 0
strncmp_eq(name, key) ==
    /\ Len(name) <= Len(key)
    /\ SubSeq(key, 1, Len(name)) = name

RECURSIVE strstr_from(_, _, _)
strstr_from(hay, needle, i) ==
    IF i + Len(needle) - 1 > Len(hay) THEN 0
    ELSE IF \A j \in 1..Len(needle) : hay[i + j - 1] = needle[j] THEN i
    ELSE strstr_from(hay, needle, i + 1)

\* index (1-based) of the first occurrence of needle in hay, 0 for NULL
strstr(hay, needle) == strstr_from(hay, needle, 1)

\* the string starting at 1-based index i (pointer arithmetic p + (i-1))
From(s, i) == SubSeq(s, i, Len(s))

\* the string truncated by writing '\0' at 1-based index i
CutAt(s, i) == SubSeq(s, 1, i - 1)

Digits == <<"0","1","2","3","4","5","6","7","8","9">>

IsDigit(c) == \E d \in 1..10 : Digits[d] = c

DigitVal(c) == (CHOOSE d \in 1..10 : Digits[d] = c) - 1

HexDigits == <<"0","1","2","3","4","5","6","7","8","9","a","b","c","d","e","f">>

HexUpper == <<"0","1","2","3","4","5","6","7","8","9","A","B","C","D","E","F">>

IsXDigit(c) == \E d \in 1..16 : HexDigits[d] = c \/ HexUpper[d] = c

XDigitVal(c) == (CHOOSE d \in 1..16 : HexDigits[d] = c \/ HexUpper[d] = c) - 1

\* isspace(3) in the C locale: space, \t, \n, \v, \f, \r
IsSpace(c) == c \in {" ", "\t", "\n", "", "\f", "\r"}

\* atoi is (int) strtol(s, NULL, 10).  The long accumulator is held as four
\* 16-bit limbs, least significant first; over records that the value has
\* left the 64 bits
LongZero == [limbs |-> <<0, 0, 0, 0>>, over |-> FALSE]

\* acc * 10 + d
LongMulAdd(acc, d) ==
    LET v1 == acc.limbs[1] * 10 + d
        v2 == acc.limbs[2] * 10 + v1 \div 65536
        v3 == acc.limbs[3] * 10 + v2 \div 65536
        v4 == acc.limbs[4] * 10 + v3 \div 65536
    IN [limbs |-> <<v1 % 65536, v2 % 65536, v3 % 65536, v4 % 65536>>,
        over |-> acc.over \/ v4 \div 65536 # 0]

\* a 32-bit pattern [hi, lo] read as an int
ToInt(hi, lo) ==
    IF hi >= 32768 THEN (hi - 65536) * 65536 + lo ELSE hi * 65536 + lo

\* (int) of the long of magnitude acc and the given sign, as strtol returns
\* it: LONG_MAX or LONG_MIN when the magnitude is out of range
LongToInt(acc, negative) ==
    LET l == acc.limbs
    IN IF ~negative
       THEN IF acc.over \/ l[4] >= 32768 THEN ToInt(65535, 65535)
            ELSE ToInt(l[2], l[1])
       ELSE IF acc.over \/ l[4] > 32768
               \/ (l[4] = 32768 /\ <<l[1], l[2], l[3]>> # <<0, 0, 0>>)
            THEN ToInt(0, 0)
            ELSE ToInt((65535 - l[2] + (IF l[1] = 0 THEN 1 ELSE 0)) % 65536,
                       (65536 - l[1]) % 65536)

RECURSIVE atoi_digits(_, _, _)
atoi_digits(s, i, acc) ==
    IF i > Len(s) \/ ~IsDigit(s[i]) THEN acc
    ELSE atoi_digits(s, i + 1, LongMulAdd(acc, DigitVal(s[i])))

RECURSIVE atoi_skip(_, _)
atoi_skip(s, i) ==
    IF i <= Len(s) /\ IsSpace(s[i]) THEN atoi_skip(s, i + 1) ELSE i

\* atoi(3): leading white space, an optional sign, then decimal digits;
\* conversion stops at the first other character, 0 when there is no digit
atoi(s) ==
    LET i == atoi_skip(s, 1)
    IN IF i <= Len(s) /\ s[i] = "-"
       THEN LongToInt(atoi_digits(s, i + 1, LongZero), TRUE)
       ELSE IF i <= Len(s) /\ s[i] = "+"
       THEN LongToInt(atoi_digits(s, i + 1, LongZero), FALSE)
       ELSE LongToInt(atoi_digits(s, i, LongZero), FALSE)

(***************************************************************************)
(* inet_pton(AF_INET, ...): strict dotted quad.  The result is             *)
(* [ok, bytes]: bytes are the four octets in memory (network) order.       *)
(***************************************************************************)
RECURSIVE inet_pton4_loop(_, _, _, _, _)
inet_pton4_loop(src, i, tmp, saw_digit, octets) ==
    IF i > Len(src)
    THEN IF octets < 4 THEN [ok |-> FALSE, bytes |-> <<0, 0, 0, 0>>]
         ELSE [ok |-> TRUE, bytes |-> tmp]
    ELSE LET ch == src[i] IN
      IF IsDigit(ch)
      THEN LET cur == IF octets = 0 THEN 0 ELSE tmp[octets]
               new == (IF saw_digit THEN cur ELSE 0) * 10 + DigitVal(ch)
           IN IF saw_digit /\ cur = 0
              THEN [ok |-> FALSE, bytes |-> <<0, 0, 0, 0>>]
              ELSE IF new > 255
              THEN [ok |-> FALSE, bytes |-> <<0, 0, 0, 0>>]
              ELSE IF ~saw_digit
              THEN IF octets + 1 > 4
                   THEN [ok |-> FALSE, bytes |-> <<0, 0, 0, 0>>]
                   ELSE inet_pton4_loop(src, i + 1,
                            [tmp EXCEPT ![octets + 1] = new], TRUE, octets + 1)
              ELSE inet_pton4_loop(src, i + 1,
                            [tmp EXCEPT ![octets] = new], TRUE, octets)
      ELSE IF ch = "." /\ saw_digit
      THEN IF octets = 4
           THEN [ok |-> FALSE, bytes |-> <<0, 0, 0, 0>>]
           ELSE inet_pton4_loop(src, i + 1, tmp, FALSE, octets)
      ELSE [ok |-> FALSE, bytes |-> <<0, 0, 0, 0>>]

inet_pton4(src) == inet_pton4_loop(src, 1, <<0, 0, 0, 0>>, FALSE, 0)

(***************************************************************************)
(* inet_pton(AF_INET6, ...).  The result is [ok, words]: the eight 16-bit  *)
(* groups of the address in order.                                         *)
(***************************************************************************)
Zeros(n) == [i \in 1..n |-> 0]

Bad6 == [ok |-> FALSE, words |-> Zeros(8)]

\* end of the text: flush the pending group, expand "::", require 8 groups
inet_pton6_finish(words, colonp) ==
    IF colonp >= 0
    THEN IF Len(words) >= 8 THEN Bad6
         ELSE [ok |-> TRUE,
               words |-> SubSeq(words, 1, colonp) \o Zeros(8 - Len(words))
                         \o SubSeq(words, colonp + 1, Len(words))]
    ELSE IF Len(words) # 8 THEN Bad6
         ELSE [ok |-> TRUE, words |-> words]

RECURSIVE inet_pton6_loop(_, _, _, _, _, _, _)
inet_pton6_loop(src, i, words, val, xdigits, colonp, curtok) ==
    IF i > Len(src)
    THEN IF xdigits > 0
         THEN IF Len(words) + 1 > 8 THEN Bad6
              ELSE inet_pton6_finish(Append(words, val), colonp)
         ELSE inet_pton6_finish(words, colonp)
    ELSE LET ch == src[i] IN
      IF IsXDigit(ch)
      THEN IF xdigits + 1 > 4 THEN Bad6
           ELSE inet_pton6_loop(src, i + 1, words, val * 16 + XDigitVal(ch),
                                xdigits + 1, colonp, curtok)
      ELSE IF ch = ":"
      THEN IF xdigits = 0
           THEN IF colonp >= 0 THEN Bad6
                ELSE inet_pton6_loop(src, i + 1, words, 0, 0, Len(words), i + 1)
           ELSE IF i + 1 > Len(src) THEN Bad6
           ELSE IF Len(words) + 1 > 8 THEN Bad6
           ELSE inet_pton6_loop(src, i + 1, Append(words, val), 0, 0,
                                colonp, i + 1)
      ELSE IF ch = "." /\ Len(words) + 2 <= 8
      THEN LET v4 == inet_pton4(From(src, curtok)) IN
           IF v4.ok
           THEN inet_pton6_finish(
                    words \o << v4.bytes[1] * 256 + v4.bytes[2],
                                v4.bytes[3] * 256 + v4.bytes[4] >>, colonp)
           ELSE Bad6
      ELSE Bad6

inet_pton6(src) ==
    IF Len(src) >= 1 /\ src[1] = ":" /\ (Len(src) < 2 \/ src[2] # ":")
    THEN Bad6
    ELSE inet_pton6_loop(src, IF Len(src) >= 1 /\ src[1] = ":" THEN 2 ELSE 1,
                         << >>, 0, 0, -1,
                         IF Len(src) >= 1 /\ src[1] = ":" THEN 2 ELSE 1)

(***************************************************************************)
(* Byte order.  struct in_addr holds the address in network byte order;    *)
(* s_addr is that memory read as a host integer, so its value depends on   *)
(* the byte order of the build (hostLE).                                   *)
(***************************************************************************)
\* a uint32_t is held as its two 16-bit halves [hi, lo]
s_addr(bytes) ==
    IF hostLE
    THEN [hi |-> bytes[4] * 256 + bytes[3], lo |-> bytes[2] * 256 + bytes[1]]
    ELSE [hi |-> bytes[1] * 256 + bytes[2], lo |-> bytes[3] * 256 + bytes[4]]

\* ((a) & 0x80000000) == 0
IN_CLASSA(a) == a.hi \div 32768 = 0

\* ((a) & 0xc0000000) == 0x80000000
IN_CLASSB(a) == a.hi \div 16384 = 2

\* ((a) & 0xe0000000) == 0xc0000000
IN_CLASSC(a) == a.hi \div 8192 = 6

IN_CLASSA_NSHIFT == 24

IN_CLASSB_NSHIFT == 16

IN_CLASSC_NSHIFT == 8

\* addr is the value of addr->s_addr
config_ip_prefix(addr) ==
    IF IN_CLASSA(addr) THEN 32 - IN_CLASSA_NSHIFT
    ELSE IF IN_CLASSB(addr) THEN 32 - IN_CLASSB_NSHIFT
    ELSE IF IN_CLASSC(addr) THEN 32 - IN_CLASSC_NSHIFT
    ELSE 0

(***************************************************************************)
(* The configuration aggregate (struct lxc_conf) and its records           *)
(***************************************************************************)
\* memset(netdev, 0, ...) followed by the two lxc_list_init calls; "0" is
\* the zeroed type field, the other types are named as in the code
ZeroNetdev ==
    [type |-> "0", flags |-> 0, link |-> NULL, name |-> NULL,
     hwaddr |-> NULL, mtu |-> NULL, ipv4 |-> << >>, ipv6 |-> << >>]

\* memset(inetdev, 0, ...)
ZeroInetdev == [addr |-> <<0, 0, 0, 0>>, bcast |-> <<0, 0, 0, 0>>, prefix |-> 0]

\* memset(inet6dev, 0, ...)
ZeroInet6dev == [addr |-> Zeros(8), prefix |-> 0]

EmptyConf ==
    [network |-> << >>, cgroup |-> << >>, mount_list |-> << >>,
     fstab |-> NULL, rootfs |-> NULL, pivotdir |-> NULL, utsname |-> NULL,
     pts |-> 0, tty |-> 0]

\* lxc_list_add(head, list): insert right after the head (front of the list)
lxc_list_add(head, elem) == <<elem>> \o head

\* lxc_list_add_tail(head, list): insert right before the head (the tail)
lxc_list_add_tail(head, elem) == Append(head, elem)

lxc_list_empty(head) == Len(head) = 0

Ret(r, c) == [ret |-> r, conf |-> c]

(***************************************************************************)
(* Network handlers                                                        *)
(***************************************************************************)
config_network_type(key, value, lxc_conf) ==
    LET netdev == ZeroNetdev
        linked == [lxc_conf EXCEPT !.network = lxc_list_add(@, netdev)]
        typed(t) == [linked EXCEPT !.network[1].type = t]
    IN IF value = <<"v","e","t","h">> THEN Ret(0, typed("VETH"))
       ELSE IF value = <<"m","a","c","v","l","a","n">> THEN Ret(0, typed("MACVLAN"))
       ELSE IF value = <<"p","h","y","s">> THEN Ret(0, typed("PHYS"))
       ELSE IF value = <<"e","m","p","t","y">> THEN Ret(0, typed("EMPTY"))
       ELSE Ret(-1, linked)

\* variant: the oldest device (tail of the list) instead of the head
network_netdev_last(network) ==
    IF lxc_list_empty(network) THEN 0 ELSE Len(network)

\* variant: a device is created on demand when the list is empty
network_netdev_nocheck(network) == 1

\* position in the list of the device returned, 0 for NULL
network_netdev(network) ==
    IF lxc_list_empty(network) THEN 0 ELSE 1

\* [ret, p]: p is the new value of *valuep
network_ifname(old, value) ==
    IF strlen(value) > IFNAMSIZ THEN [ret |-> -1, p |-> old]
    ELSE [ret |-> 0, p |-> Ptr(value)]

config_network_flags(key, value, lxc_conf) ==
    LET netdev == network_netdev(lxc_conf.network)
    IN IF netdev = 0 THEN Ret(-1, lxc_conf)
       ELSE Ret(0, [lxc_conf EXCEPT !.network[netdev].flags =
                       IF @ % 2 = 1 THEN @ ELSE @ + IFF_UP])

config_network_link(key, value, lxc_conf) ==
    LET netdev == network_netdev(lxc_conf.network)
    IN IF netdev = 0 THEN Ret(-1, lxc_conf)
       ELSE LET r == network_ifname(lxc_conf.network[netdev].link, value)
            IN Ret(r.ret, [lxc_conf EXCEPT !.network[netdev].link = r.p])

config_network_name(key, value, lxc_conf) ==
    LET netdev == network_netdev(lxc_conf.network)
    IN IF netdev = 0 THEN Ret(-1, lxc_conf)
       ELSE LET r == network_ifname(lxc_conf.network[netdev].name, value)
            IN Ret(r.ret, [lxc_conf EXCEPT !.network[netdev].name = r.p])

config_network_hwaddr(key, value, lxc_conf) ==
    LET netdev == network_netdev(lxc_conf.network)
    IN IF netdev = 0 THEN Ret(-1, lxc_conf)
       ELSE Ret(0, [lxc_conf EXCEPT !.network[netdev].hwaddr = Ptr(value)])

config_network_mtu(key, value, lxc_conf) ==
    LET netdev == network_netdev(lxc_conf.network)
    IN IF netdev = 0 THEN Ret(-1, lxc_conf)
       ELSE Ret(0, [lxc_conf EXCEPT !.network[netdev].mtu = Ptr(value)])

config_network_ipv4(key, value, lxc_conf) ==
    LET netdev == network_netdev(lxc_conf.network)
        cursor == strstr(value, <<" ">>)
        addr0  == IF cursor # 0 THEN CutAt(value, cursor) ELSE value
        bcast  == IF cursor # 0 THEN Ptr(From(value, cursor + 1)) ELSE NULL
        slash  == strstr(addr0, <<"/">>)
        addr   == IF slash # 0 THEN CutAt(addr0, slash) ELSE addr0
        prefix == IF slash # 0 THEN Ptr(From(addr0, slash + 1)) ELSE NULL
        a      == inet_pton4(addr)
        b      == IF bcast # NULL THEN inet_pton4(bcast[1])
                  ELSE [ok |-> TRUE, bytes |-> ZeroInetdev.bcast]
        inetdev == [addr |-> a.bytes, bcast |-> b.bytes,
                    prefix |-> IF prefix # NULL THEN atoi(prefix[1])
                               ELSE config_ip_prefix(s_addr(a.bytes))]
    IN IF netdev = 0 THEN Ret(-1, lxc_conf)
       ELSE IF ~a.ok THEN Ret(-1, lxc_conf)
       ELSE IF ~b.ok THEN Ret(-1, lxc_conf)
       ELSE Ret(0, [lxc_conf EXCEPT !.network[netdev].ipv4 =
                                        lxc_list_add(@, inetdev)])

config_network_ipv6(key, value, lxc_conf) ==
    LET netdev == network_netdev(lxc_conf.network)
        slash  == strstr(value, <<"/">>)
        addr   == IF slash # 0 THEN CutAt(value, slash) ELSE value
        a      == inet_pton6(addr)
        inet6dev == [addr |-> a.words,
                     prefix |-> IF slash # 0 THEN atoi(From(value, slash + 1))
                                ELSE 64]
    IN IF netdev = 0 THEN Ret(-1, lxc_conf)
       ELSE IF ~a.ok THEN Ret(-1, lxc_conf)
       ELSE Ret(0, [lxc_conf EXCEPT !.network[netdev].ipv6 =
                                        lxc_list_add(@, inet6dev)])

(***************************************************************************)
(* Scalar, cgroup and mount handlers                                       *)
(***************************************************************************)
config_pts(key, value, lxc_conf) ==
    Ret(0, [lxc_conf EXCEPT !.pts = atoi(value)])

config_tty(key, value, lxc_conf) ==
    Ret(0, [lxc_conf EXCEPT !.tty = atoi(value)])

\* variant: a line for a subsystem already present overwrites its value
config_cgroup_merge(key, value, lxc_conf) ==
    LET token  == <<"l","x","c",".","c","g","r","o","u","p",".">>
        subkey == strstr(key, token)
        sub    == From(key, subkey + strlen(token))
        hit    == { i \in 1..Len(lxc_conf.cgroup) :
                       lxc_conf.cgroup[i].subsystem = sub }
    IN IF subkey = 0 THEN Ret(-1, lxc_conf)
       ELSE IF strlen(From(key, subkey)) = strlen(token) THEN Ret(-1, lxc_conf)
       ELSE IF hit # {}
       THEN Ret(0, [lxc_conf EXCEPT !.cgroup =
                [i \in 1..Len(@) |-> IF i \in hit
                                     THEN [@[i] EXCEPT !.value = value]
                                     ELSE @[i]]])
       ELSE Ret(0, [lxc_conf EXCEPT !.cgroup =
                lxc_list_add_tail(@, [subsystem |-> sub, value |-> value])])

config_cgroup(key, value, lxc_conf) ==
    LET token  == <<"l","x","c",".","c","g","r","o","u","p",".">>
        subkey == strstr(key, token)
    IN IF subkey = 0 THEN Ret(-1, lxc_conf)
       ELSE IF strlen(From(key, subkey)) = 0 THEN Ret(-1, lxc_conf)
       ELSE IF strlen(From(key, subkey)) = strlen(token) THEN Ret(-1, lxc_conf)
       ELSE LET cgelem == [subsystem |-> From(key, subkey + strlen(token)),
                           value |-> value]
            IN Ret(0, [lxc_conf EXCEPT !.cgroup = lxc_list_add_tail(@, cgelem)])

config_fstab(key, value, lxc_conf) ==
    IF strlen(value) >= MAXPATHLEN THEN Ret(-1, lxc_conf)
    ELSE Ret(0, [lxc_conf EXCEPT !.fstab = Ptr(value)])

\* variant: the stem "lxc.mount" is tested before "lxc.mount.entry"
config_mount_stemfirst(key, value, lxc_conf) ==
    IF strstr(key, <<"l","x","c",".","m","o","u","n","t">>) # 0 THEN config_fstab(key, value, lxc_conf)
    ELSE IF strstr(key, <<"l","x","c",".","m","o","u","n","t",".","e","n","t","r","y">>) = 0 THEN Ret(-1, lxc_conf)
    ELSE Ret(0, [lxc_conf EXCEPT !.mount_list = lxc_list_add_tail(@, value)])

config_mount(key, value, lxc_conf) ==
    LET fstab_token == <<"l","x","c",".","m","o","u","n","t">>
        token  == <<"l","x","c",".","m","o","u","n","t",".","e","n","t","r","y">>
        subkey == strstr(key, token)
    IN IF subkey = 0
       THEN IF strstr(key, fstab_token) = 0 THEN Ret(-1, lxc_conf)
            ELSE config_fstab(key, value, lxc_conf)
       ELSE IF strlen(From(key, subkey)) = 0 THEN Ret(-1, lxc_conf)
       ELSE Ret(0, [lxc_conf EXCEPT !.mount_list = lxc_list_add_tail(@, value)])

config_rootfs(key, value, lxc_conf) ==
    IF strlen(value) >= MAXPATHLEN THEN Ret(-1, lxc_conf)
    ELSE Ret(0, [lxc_conf EXCEPT !.rootfs = Ptr(value)])

config_pivotdir(key, value, lxc_conf) ==
    IF strlen(value) >= MAXPATHLEN THEN Ret(-1, lxc_conf)
    ELSE Ret(0, [lxc_conf EXCEPT !.pivotdir = Ptr(value)])

config_utsname(key, value, lxc_conf) ==
    IF strlen(value) >= NODENAMESIZE THEN Ret(-1, lxc_conf)
    ELSE Ret(0, [lxc_conf EXCEPT !.utsname = Ptr(value)])

(***************************************************************************)
(* Dispatch table and lookup                                               *)
(***************************************************************************)
config ==
    << [name |-> <<"l","x","c",".","p","t","s">>,            cb |-> "config_pts"],
       [name |-> <<"l","x","c",".","t","t","y">>,            cb |-> "config_tty"],
       [name |-> <<"l","x","c",".","c","g","r","o","u","p">>,         cb |-> "config_cgroup"],
       [name |-> <<"l","x","c",".","m","o","u","n","t">>,          cb |-> "config_mount"],
       [name |-> <<"l","x","c",".","r","o","o","t","f","s">>,         cb |-> "config_rootfs"],
       [name |-> <<"l","x","c",".","u","t","s","n","a","m","e">>,        cb |-> "config_utsname"],
       [name |-> <<"l","x","c",".","n","e","t","w","o","r","k",".","t","y","p","e">>,   cb |-> "config_network_type"],
       [name |-> <<"l","x","c",".","p","i","v","o","t","d","i","r">>,       cb |-> "config_pivotdir"],
       [name |-> <<"l","x","c",".","n","e","t","w","o","r","k",".","f","l","a","g","s">>,  cb |-> "config_network_flags"],
       [name |-> <<"l","x","c",".","n","e","t","w","o","r","k",".","l","i","n","k">>,   cb |-> "config_network_link"],
       [name |-> <<"l","x","c",".","n","e","t","w","o","r","k",".","n","a","m","e">>,   cb |-> "config_network_name"],
       [name |-> <<"l","x","c",".","n","e","t","w","o","r","k",".","h","w","a","d","d","r">>, cb |-> "config_network_hwaddr"],
       [name |-> <<"l","x","c",".","n","e","t","w","o","r","k",".","m","t","u">>,    cb |-> "config_network_mtu"],
       [name |-> <<"l","x","c",".","n","e","t","w","o","r","k",".","i","p","v","4">>,   cb |-> "config_network_ipv4"],
       [name |-> <<"l","x","c",".","n","e","t","w","o","r","k",".","i","p","v","6">>,   cb |-> "config_network_ipv6"] >>

config_size == Len(config)

RECURSIVE getconfig_from(_, _)
getconfig_from(key, i) ==
    IF i > config_size THEN 0
    ELSE IF strncmp_eq(config[i].name, key) THEN i
    ELSE getconfig_from(key, i + 1)

\* variant: the key must equal the entry's name
getconfig_exact(key) ==
    LET hits == { i \in 1..config_size : config[i].name = key }
    IN IF hits = {} THEN 0 ELSE CHOOSE i \in hits : \A j \in hits : i <= j

\* index of the entry returned, 0 for NULL
getconfig(key) == getconfig_from(key, 1)

\* config->cb(key, value, data)
Call(cb, key, value, c) ==
    CASE cb = "config_pts"            -> config_pts(key, value, c)
      [] cb = "config_tty"            -> config_tty(key, value, c)
      [] cb = "config_cgroup"         -> config_cgroup(key, value, c)
      [] cb = "config_mount"          -> config_mount(key, value, c)
      [] cb = "config_rootfs"         -> config_rootfs(key, value, c)
      [] cb = "config_utsname"        -> config_utsname(key, value, c)
      [] cb = "config_network_type"   -> config_network_type(key, value, c)
      [] cb = "config_pivotdir"       -> config_pivotdir(key, value, c)
      [] cb = "config_network_flags"  -> config_network_flags(key, value, c)
      [] cb = "config_network_link"   -> config_network_link(key, value, c)
      [] cb = "config_network_name"   -> config_network_name(key, value, c)
      [] cb = "config_network_hwaddr" -> config_network_hwaddr(key, value, c)
      [] cb = "config_network_mtu"    -> config_network_mtu(key, value, c)
      [] cb = "config_network_ipv4"   -> config_network_ipv4(key, value, c)
      [] cb = "config_network_ipv6"   -> config_network_ipv6(key, value, c)

(***************************************************************************)
(* Line trimming helpers and parse_line                                    *)
(***************************************************************************)
RECURSIVE left_gc_from(_, _)
left_gc_from(buffer, i) ==
    IF i > Len(buffer) THEN 0
    ELSE IF buffer[i] \in {" ", "\t"} THEN left_gc_from(buffer, i + 1)
    ELSE i - 1

\* number of leading blanks to skip
lxc_char_left_gc(buffer) == left_gc_from(buffer, 1)

RECURSIVE right_gc_from(_, _)
right_gc_from(buffer, i) ==
    IF i < 1 THEN 0
    ELSE IF buffer[i] \in {" ", "\t", "\n"} THEN right_gc_from(buffer, i - 1)
    ELSE i

\* length of the text once trailing blanks are removed
lxc_char_right_gc(buffer) == right_gc_from(buffer, Len(buffer))

lxc_is_line_empty(line) ==
    \A i \in 1..Len(line) : line[i] \in {" ", "\t", "\n", "\r", "\f"}

\* the part of parse_line before the handler is called: which return
\* statement the line reaches (kind), the trimmed key and value, and the
\* position in the table of the entry getconfig returns
parse_line_tokens(buffer) ==
    LET line  == From(buffer, lxc_char_left_gc(buffer) + 1)
        dot   == strstr(line, <<"=">>)
        key0  == CutAt(line, dot)
        key   == SubSeq(key0, 1, lxc_char_right_gc(key0))
        val0  == From(line, dot + 1)
        val1  == From(val0, lxc_char_left_gc(val0) + 1)
        value == SubSeq(val1, 1, lxc_char_right_gc(val1))
        entry == getconfig(key)
        none  == [kind |-> "skip", key |-> << >>, value |-> << >>, entry |-> 0]
    IN IF lxc_is_line_empty(buffer) THEN none
       ELSE IF line[1] = "#" THEN none
       ELSE IF dot = 0 THEN [none EXCEPT !.kind = "nosep"]
       ELSE IF entry = 0
            THEN [kind |-> "unknown", key |-> key, value |-> value, entry |-> 0]
       ELSE [kind |-> "handler", key |-> key, value |-> value, entry |-> entry]

\* the rest of parse_line, from the tokens t: [ret, conf, kind, key, value, entry]
parse_line_dispatch(t, data) ==
    IF t.kind = "skip"
    THEN [ret |-> 0, conf |-> data, kind |-> t.kind, key |-> t.key,
          value |-> t.value, entry |-> t.entry]
    ELSE IF t.kind \in {"nosep", "unknown"}
    THEN [ret |-> -1, conf |-> data, kind |-> t.kind, key |-> t.key,
          value |-> t.value, entry |-> t.entry]
    ELSE LET r == Call(config[t.entry].cb, t.key, t.value, data)
         IN [ret |-> r.ret, conf |-> r.conf, kind |-> t.kind,
             key |-> t.key, value |-> t.value, entry |-> t.entry]

parse_line(buffer, data) == parse_line_dispatch(parse_line_tokens(buffer), data)

(***************************************************************************)
(* lxc_config_read: lxc_file_for_each_line feeds every line of the file to *)
(* parse_line and stops at the first non-zero result.                      *)
(***************************************************************************)
\* the text of the lines the file may contain
LineTexts ==
    { << >>, <<" "," ","#"," ","l","x","c",".","t","t","y"," ","="," ","1">>, <<"n","o","t"," ","a"," ","d","i","r","e","c","t","i","v","e">>, <<"l","x","c",".","b","o","g","u","s"," ","="," ","1">>,
      <<"l","x","c",".","p","t","s"," ","="," ","5">>, <<" "," ","l","x","c",".","t","t","y"," ","="," ","4","x">>,
      <<"l","x","c",".","c","g","r","o","u","p",".","c","p","u"," ","="," ","1">>, <<"l","x","c",".","c","g","r","o","u","p",".","m","e","m","=","2">>,
      <<"l","x","c",".","c","g","r","o","u","p"," ","=">>, <<"l","x","c",".","c","g","r","o","u","p","."," ","="," ","1">>, <<"l","x","c",".","c","g","r","o","u","p","X"," ","="," ","1">>,
      <<"l","x","c",".","m","o","u","n","t",".","e","n","t","r","y"," ","="," ","p","r","o","c">>, <<"l","x","c",".","m","o","u","n","t",".","e","n","t","r","y"," ","="," ","s","y","s">>,
      <<"l","x","c",".","m","o","u","n","t"," ","="," ","/","a">>, <<"l","x","c",".","m","o","u","n","t"," ","="," ","/","b">>,
      <<"l","x","c",".","r","o","o","t","f","s"," ","="," ","/","r">>, <<"l","x","c",".","r","o","o","t","f","s"," ","="," ">> \o Rep(MAXPATHLEN),
      <<"l","x","c",".","p","i","v","o","t","d","i","r"," ","="," ","p">>,
      <<"l","x","c",".","u","t","s","n","a","m","e"," ","="," ">> \o Rep(NODENAMESIZE - 1),
      <<"l","x","c",".","u","t","s","n","a","m","e"," ","="," ">> \o Rep(NODENAMESIZE),
      <<"l","x","c",".","n","e","t","w","o","r","k",".","t","y","p","e"," ","="," ","v","e","t","h">>, <<"l","x","c",".","n","e","t","w","o","r","k",".","t","y","p","e"," ","="," ","m","a","c","v","l","a","n">>,
      <<"l","x","c",".","n","e","t","w","o","r","k",".","t","y","p","e"," ","="," ","p","h","y","s">>, <<"l","x","c",".","n","e","t","w","o","r","k",".","t","y","p","e"," ","="," ","e","m","p","t","y">>,
      <<"l","x","c",".","n","e","t","w","o","r","k",".","t","y","p","e"," ","="," ","b","o","g","u","s">>,
      <<"l","x","c",".","n","e","t","w","o","r","k",".","f","l","a","g","s"," ","="," ","u","p">>, <<"l","x","c",".","n","e","t","w","o","r","k",".","l","i","n","k"," ","="," ","e","t","h","0">>,
      <<"l","x","c",".","n","e","t","w","o","r","k",".","l","i","n","k"," ","="," ">> \o Rep(IFNAMSIZ + 1),
      <<"l","x","c",".","n","e","t","w","o","r","k",".","n","a","m","e"," ","="," ","n","0">>, <<"l","x","c",".","n","e","t","w","o","r","k",".","n","a","m","e"," ","="," ">> \o Rep(IFNAMSIZ + 1),
      <<"l","x","c",".","n","e","t","w","o","r","k",".","h","w","a","d","d","r"," ","="," ","a","a",":","b","b">>, <<"l","x","c",".","n","e","t","w","o","r","k",".","m","t","u"," ","="," ","1","5","0","0">>,
      <<"l","x","c",".","n","e","t","w","o","r","k",".","i","p","v","4"," ","="," ","1","0",".","0",".","0",".","5">>,
      <<"l","x","c",".","n","e","t","w","o","r","k",".","i","p","v","4"," ","="," ","1","7","2",".","1","6",".","0",".","5">>, <<"l","x","c",".","n","e","t","w","o","r","k",".","i","p","v","4"," ","="," ","1","9","2",".","1","6","8",".","0",".","5">>,
      <<"l","x","c",".","n","e","t","w","o","r","k",".","i","p","v","4"," ","="," ","2","2","4",".","0",".","0",".","1">>,
      <<"l","x","c",".","n","e","t","w","o","r","k",".","i","p","v","4"," ","="," ","1","0",".","0",".","0",".","5","/","2","4"," ","1","0",".","0",".","0",".","2","5","5">>,
      <<"l","x","c",".","n","e","t","w","o","r","k",".","i","p","v","4"," ","="," ","1","0",".","0",".","0",".","5","/","9","9">>, <<"l","x","c",".","n","e","t","w","o","r","k",".","i","p","v","4"," ","="," ","1","0",".","0",".","0">>,
      <<"l","x","c",".","n","e","t","w","o","r","k",".","i","p","v","4"," ","="," ","1","0",".","0",".","0",".","5"," ","x">>,
      <<"l","x","c",".","n","e","t","w","o","r","k",".","i","p","v","6"," ","="," ","f","e","8","0",":",":","1">>, <<"l","x","c",".","n","e","t","w","o","r","k",".","i","p","v","6"," ","="," ","f","e","8","0",":",":","2","/","4","8">>,
      <<"l","x","c",".","n","e","t","w","o","r","k",".","i","p","v","6"," ","="," ","z","z">> }

\* the lines of the file, each with its newline
Lines == { t \o <<"\n">> : t \in LineTexts }

\* what one read into char buffer[MAXPATHLEN] takes of a line: at most
\* sizeof(buffer) - 1 characters
FirstChunk(text) ==
    SubSeq(text, 1, IF Len(text) < MAXPATHLEN THEN Len(text) ELSE MAXPATHLEN - 1)

\* what that read leaves of the line for the next read
Rest(text) == SubSeq(text, MAXPATHLEN, Len(text))

RECURSIVE ChunksOf(_)
ChunksOf(text) ==
    IF text = << >> THEN {}
    ELSE {FirstChunk(text)} \cup ChunksOf(Rest(text))

\* every buffer content parse_line can be called on
Buffers == UNION { ChunksOf(line) : line \in Lines }

NoLine ==
    [line |-> << >>, kind |-> "none", entry |-> 0, key |-> << >>,
     value |-> << >>, ret |-> 0]

\* the tokens of every buffer content, computed once
Tokens == [buffer \in Buffers |-> parse_line_tokens(buffer)]

\* the handler the first read of a line is dispatched to, or the early
\* return it takes
LineCb(line) ==
    LET r == Tokens[FirstChunk(line)]
    IN IF r.kind = "handler" THEN config[r.entry].cb ELSE r.kind

\* variant: the loop goes on to the next line whatever the callback returns
lxc_file_for_each_line_step_ignore(err) == "reading"

\* what lxc_file_for_each_line does with the callback's result
lxc_file_for_each_line_step(err) ==
    IF err # 0 THEN "returned" ELSE "reading"

Init ==
    /\ conf = EmptyConf
    /\ status = "reading"
    /\ result = 0
    /\ nread = 0
    /\ last = NoLine
    /\ pending = << >>
    /\ rets = << >>
    /\ cglog = << >>
    /\ hostLE \in BOOLEAN

\* one iteration of the loop: the callback on the buffer just read, rest
\* being what is left of the line
FeedBuffer(buffer, rest) ==
    /\ status = "reading"
    /\ nread < MaxLines
    /\ LET r == parse_line_dispatch(Tokens[buffer], conf)
       IN /\ conf' = r.conf
          /\ last' = [line |-> buffer, kind |-> r.kind, entry |-> r.entry,
                      key |-> r.key, value |-> r.value, ret |-> r.ret]
          /\ rets' = Append(rets, r.ret)
          /\ result' = r.ret
          /\ status' = lxc_file_for_each_line_step(r.ret)
          /\ cglog' = IF r.kind = "handler" /\ r.ret = 0
                         /\ config[r.entry].cb = "config_cgroup"
                      THEN Append(cglog, <<r.key, r.value>>)
                      ELSE cglog
    /\ nread' = nread + 1
    /\ pending' = rest
    /\ UNCHANGED hostLE

\* the first read of the next line of the file
Feed(line) ==
    /\ pending = << >>
    /\ FeedBuffer(FirstChunk(line), Rest(line))

\* the next read of a line that did not fit in the buffer
FeedRest ==
    /\ pending # << >>
    /\ FeedBuffer(FirstChunk(pending), Rest(pending))

Kinds == {"skip", "nosep", "unknown"} \cup { config[i].cb : i \in 1..config_size }

\* the lines of the file grouped by the handler or early return they reach
LinesOf == [k \in Kinds |-> { line \in Lines : LineCb(line) = k }]

FeedKind(k) == \E line \in LinesOf[k] : Feed(line)

SkipLine == FeedKind("skip")

NoSeparatorLine == FeedKind("nosep")

UnknownKeyLine == FeedKind("unknown")

PtsLine == FeedKind("config_pts")

TtyLine == FeedKind("config_tty")

CgroupLine == FeedKind("config_cgroup")

MountLine == FeedKind("config_mount")

RootfsLine == FeedKind("config_rootfs")

UtsnameLine == FeedKind("config_utsname")

PivotdirLine == FeedKind("config_pivotdir")

NetworkTypeLine == FeedKind("config_network_type")

NetworkFlagsLine == FeedKind("config_network_flags")

NetworkLinkLine == FeedKind("config_network_link")

NetworkNameLine == FeedKind("config_network_name")

NetworkHwaddrLine == FeedKind("config_network_hwaddr")

NetworkMtuLine == FeedKind("config_network_mtu")

NetworkIpv4Line == FeedKind("config_network_ipv4")

NetworkIpv6Line == FeedKind("config_network_ipv6")

\* the line supplier has no more lines: the read returns 0
EndOfFile ==
    /\ status = "reading"
    /\ pending = << >>
    /\ status' = "returned"
    /\ result' = 0
    /\ UNCHANGED <<conf, nread, pending, last, rets, cglog, hostLE>>

Next ==
    \/ SkipLine
    \/ NoSeparatorLine
    \/ UnknownKeyLine
    \/ PtsLine
    \/ TtyLine
    \/ CgroupLine
    \/ MountLine
    \/ RootfsLine
    \/ UtsnameLine
    \/ PivotdirLine
    \/ NetworkTypeLine
    \/ NetworkFlagsLine
    \/ NetworkLinkLine
    \/ NetworkNameLine
    \/ NetworkHwaddrLine
    \/ NetworkMtuLine
    \/ NetworkIpv4Line
    \/ NetworkIpv6Line
    \/ FeedRest
    \/ EndOfFile

Spec == Init /\ [][Next]_vars

(***************************************************************************)
(* config_mount on its own: the handler called on keys that getconfig      *)
(* dispatches to it and on values of any length.                           *)
(***************************************************************************)
MountKeys ==
    { <<"l","x","c",".","m","o","u","n","t">>, <<"l","x","c",".","m","o","u","n","t",".","e","n","t","r","y">>, <<"l","x","c",".","m","o","u","n","t",".","e","n","t","r","y",".","x">>, <<"l","x","c",".","m","o","u","n","t","p","o","i","n","t">> }

MountValues ==
    { <<"/","a">>, Rep(MAXPATHLEN - 1), Rep(MAXPATHLEN), Rep(MAXPATHLEN + 1) }

CallMount ==
    /\ nread < MaxLines
    /\ \E key \in MountKeys, value \in MountValues :
          LET r == config_mount(key, value, conf)
          IN /\ conf' = r.conf
             /\ last' = [line |-> << >>, kind |-> "handler",
                         entry |-> getconfig(key), key |-> key,
                         value |-> value, ret |-> r.ret]
             /\ rets' = Append(rets, r.ret)
             /\ result' = r.ret
    /\ nread' = nread + 1
    /\ UNCHANGED <<status, pending, cglog, hostLE>>

NextMount == CallMount

SpecMount == Init /\ [][NextMount]_vars

(***************************************************************************)
(* Properties                                                              *)
(***************************************************************************)
\* the handler the last line was dispatched to, or the early return taken
LastCb == IF last.kind = "handler" THEN config[last.entry].cb ELSE last.kind

SubFieldCbs ==
    { "config_network_flags", "config_network_link", "config_network_name",
      "config_network_hwaddr", "config_network_mtu", "config_network_ipv4",
      "config_network_ipv6" }

\* this step handed one line to parse_line
LineStep == nread' = nread + 1

NonNetwork(c) == [c EXCEPT !.network = << >>]

\* C1: a line that returns failure leaves the whole aggregate as it was
\* before the line.
C1_FailedLineKeepsAggregate ==
    [][(LineStep /\ last'.ret # 0) => conf' = conf]_vars

\* an address token has no "/prefix" part
AddrToken(value) ==
    IF \E i \in 1..Len(value) : value[i] = " "
    THEN SubSeq(value, 1, (CHOOSE i \in 1..Len(value) :
                  value[i] = " " /\ \A j \in 1..(i - 1) : value[j] # " ") - 1)
    ELSE value

NoPrefixPart(value) == \A i \in 1..Len(AddrToken(value)) : value[i] # "/"

\* prefix length of the historical class of an address, from its first octet
ClassPrefix(octet) ==
    IF octet <= 127 THEN 8
    ELSE IF octet <= 191 THEN 16
    ELSE IF octet <= 223 THEN 24
    ELSE 0

\* C2: the binding stored by a successful lxc.network.ipv4 line without a
\* "/prefix" part has the prefix length of the class of its first octet.
C2_ClassfulPrefixFromFirstOctet ==
    (LastCb = "config_network_ipv4" /\ last.ret = 0 /\ NoPrefixPart(last.value))
    => \E i \in 1..Len(conf.network[1].ipv4) :
          LET b == conf.network[1].ipv4[i]
          IN /\ b.addr = inet_pton4(AddrToken(last.value)).bytes
             /\ b.prefix = ClassPrefix(b.addr[1])

\* C3: a successful lxc.network.type line puts its device in front of the
\* list, and a successful flags/link/name/hwaddr/mtu/ipv4/ipv6 line changes
\* nothing but the device at the head of the list: the other devices and
\* the non-network fields stay as they were.
C3_SubFieldChangesOnlyNewestDevice ==
    [][/\ (LineStep /\ LastCb' = "config_network_type" /\ last'.ret = 0)
            => /\ Len(conf'.network) = Len(conf.network) + 1
               /\ SubSeq(conf'.network, 2, Len(conf'.network)) = conf.network
       /\ (LineStep /\ LastCb' \in SubFieldCbs /\ last'.ret = 0)
            => /\ Len(conf.network) >= 1
               /\ Len(conf'.network) = Len(conf.network)
               /\ \A i \in 2..Len(conf.network) :
                      conf'.network[i] = conf.network[i]
               /\ conf'.network[1].type = conf.network[1].type
               /\ NonNetwork(conf') = NonNetwork(conf)]_vars

\* veth, then macvlan, then link = eth0: the link is on the macvlan device
\* only
C3_Witness ==
    /\ Len(conf.network) = 2
    /\ conf.network[1].type = "MACVLAN"
    /\ conf.network[1].link = Ptr(<<"e","t","h","0">>)
    /\ conf.network[2].type = "VETH"
    /\ conf.network[2].link = NULL
    /\ LastCb = "config_network_link"
    /\ last.ret = 0

\* C4: with an empty device list every flags/link/name/hwaddr/mtu/ipv4/ipv6
\* line fails and the device list stays empty.
C4_SubFieldWithoutDeviceFails ==
    [][(LineStep /\ LastCb' \in SubFieldCbs /\ conf.network = << >>)
          => (last'.ret = -1 /\ conf'.network = << >>)]_vars

C4_Witness ==
    /\ LastCb = "config_network_flags"
    /\ last.ret = -1
    /\ conf.network = << >>
    /\ status = "returned"
    /\ result = -1

\* C5: a successful lxc.network.ipv4 (resp. ipv6) line adds its binding at
\* the tail of the current device's list: the bindings that were there stay
\* in front, in their order.
C5_BindingsAppendedAtTail ==
    [][/\ (LineStep /\ LastCb' = "config_network_ipv4" /\ last'.ret = 0)
            => /\ Len(conf'.network[1].ipv4) = Len(conf.network[1].ipv4) + 1
               /\ SubSeq(conf'.network[1].ipv4, 1, Len(conf.network[1].ipv4))
                     = conf.network[1].ipv4
       /\ (LineStep /\ LastCb' = "config_network_ipv6" /\ last'.ret = 0)
            => /\ Len(conf'.network[1].ipv6) = Len(conf.network[1].ipv6) + 1
               /\ SubSeq(conf'.network[1].ipv6, 1, Len(conf.network[1].ipv6))
                     = conf.network[1].ipv6]_vars

\* the text after the first "lxc.cgroup." of a key
AfterCgroupToken(key) ==
    LET tok == <<"l","x","c",".","c","g","r","o","u","p",".">>
        at(i) == SubSeq(key, i, i + Len(tok) - 1) = tok
        first == CHOOSE i \in 1..Len(key) : at(i) /\ \A j \in 1..(i - 1) : ~at(j)
    IN SubSeq(key, first + Len(tok), Len(key))

\* C6: the cgroup list is, in order, the (subsystem, value) of every
\* lxc.cgroup line that succeeded, one entry per line; a key "lxc.cgroup" or
\* "lxc.cgroup." fails.
C6_CgroupListIsLogOfLines ==
    /\ conf.cgroup = [i \in 1..Len(cglog) |->
                        [subsystem |-> AfterCgroupToken(cglog[i][1]),
                         value |-> cglog[i][2]]]
    /\ (LastCb = "config_cgroup" /\ last.key \in {<<"l","x","c",".","c","g","r","o","u","p">>, <<"l","x","c",".","c","g","r","o","u","p",".">>})
          => last.ret = -1

\* the same subsystem twice: two entries, in the order of the lines
C6_Witness ==
    /\ Len(conf.cgroup) = 3
    /\ conf.cgroup[1] = [subsystem |-> <<"c","p","u">>, value |-> <<"1">>]
    /\ conf.cgroup[2] = [subsystem |-> <<"m","e","m">>, value |-> <<"2">>]
    /\ conf.cgroup[3] = [subsystem |-> <<"c","p","u">>, value |-> <<"1">>]

HasMountEntry(key) ==
    \E i \in 1..(Len(key) - 14) : SubSeq(key, i, i + 14) = <<"l","x","c",".","m","o","u","n","t",".","e","n","t","r","y">>

\* C7: an lxc.mount.entry line appends its value to the mount entries and
\* keeps the fstab path; any other lxc.mount line sets the fstab path to a
\* value shorter than MAXPATHLEN and keeps the mount entries, and fails on a
\* longer value.
C7_MountEntryVersusFstab ==
    [][(LineStep /\ LastCb' = "config_mount") =>
         IF HasMountEntry(last'.key)
         THEN /\ last'.ret = 0
              /\ conf'.mount_list = Append(conf.mount_list, last'.value)
              /\ conf'.fstab = conf.fstab
         ELSE IF Len(last'.value) < MAXPATHLEN
         THEN /\ last'.ret = 0
              /\ conf'.fstab = Ptr(last'.value)
              /\ conf'.mount_list = conf.mount_list
         ELSE last'.ret = -1]_vars

\* an entry, then an fstab path one short of the ceiling, then a failed
\* attempt to replace it with a path at the ceiling
C7_Witness ==
    /\ conf.mount_list = << <<"/","a">> >>
    /\ conf.fstab = Ptr(Rep(MAXPATHLEN - 1))
    /\ rets = <<0, 0, -1>>
    /\ LastCb = "config_mount"
    /\ last.key = <<"l","x","c",".","m","o","u","n","t">>
    /\ last.value = Rep(MAXPATHLEN)

\* C8: lines are processed in order and the read stops at the first failing
\* line: only the last line processed can have failed, the read then
\* returns that failure and nothing changes afterwards; the read returns 0
\* only if no line failed.
C8_ReadStopsAtFirstFailure ==
    /\ [](/\ Len(rets) = nread
          /\ \A i \in 1..(Len(rets) - 1) : rets[i] = 0
          /\ (\E i \in 1..Len(rets) : rets[i] # 0)
                => (status = "returned" /\ result = rets[Len(rets)])
          /\ (status = "returned" /\ result = 0)
                => \A i \in 1..Len(rets) : rets[i] = 0)
    /\ [][status = "returned" => UNCHANGED <<conf, rets, nread, result>>]_vars

\* a good line, then a failing one: the read has returned the failure
C8_Witness ==
    /\ rets = <<0, -1>>
    /\ status = "returned"
    /\ result = -1
    /\ conf # EmptyConf

NotBlank(c) == c \notin {" ", "\t"}

NotBlankNorNewline(c) == c \notin {" ", "\t", "\n"}

IsEquals(c) == c = "="

\* position of the first (resp. last) character of t that satisfies P, or 0
FirstWhere(t, P(_)) ==
    IF \E i \in 1..Len(t) : P(t[i])
    THEN CHOOSE i \in 1..Len(t) : P(t[i]) /\ \A j \in 1..(i - 1) : ~P(t[j])
    ELSE 0

LastWhere(t, P(_)) ==
    IF \E i \in 1..Len(t) : P(t[i])
    THEN Len(t) + 1 - (CHOOSE k \in 1..Len(t) :
                           /\ P(t[Len(t) + 1 - k])
                           /\ \A j \in 1..(k - 1) : ~P(t[Len(t) + 1 - j]))
    ELSE 0

\* text without its leading blanks and its trailing blanks and newlines
Trimmed(t) ==
    IF FirstWhere(t, NotBlank) = 0 THEN << >>
    ELSE SubSeq(t, FirstWhere(t, NotBlank), LastWhere(t, NotBlankNorNewline))

IsBlankLine(t) == \A i \in 1..Len(t) : t[i] \in {" ", "\t", "\n", "\r", "\f"}

IsPrefixOf(p, t) == Len(p) <= Len(t) /\ \A i \in 1..Len(p) : p[i] = t[i]

\* how the claim reads a line: skipped, without "=", or a key and a value
\* with the first table entry whose name is a prefix of the key (0: none)
Reading(line) ==
    LET body  == Trimmed(line)
        eq    == FirstWhere(body, IsEquals)
        key   == Trimmed(SubSeq(body, 1, eq - 1))
        value == Trimmed(SubSeq(body, eq + 1, Len(body)))
        match == { i \in 1..Len(config) : IsPrefixOf(config[i].name, key) }
    IN IF IsBlankLine(line) \/ body[1] = "#"
       THEN [kind |-> "skip", key |-> << >>, value |-> << >>, first |-> 0]
       ELSE IF eq = 0
       THEN [kind |-> "nosep", key |-> << >>, value |-> << >>, first |-> 0]
       ELSE [kind |-> "directive", key |-> key, value |-> value,
             first |-> IF match = {} THEN 0
                       ELSE CHOOSE i \in match : \A j \in match : i <= j]

\* the reading of every buffer content, computed once
Readings == [buffer \in Buffers |-> Reading(buffer)]

\* what the claim says a line does to the aggregate c: [ret, conf]
Expected(line, c) ==
    LET r == Readings[line]
    IN IF r.kind = "skip" THEN Ret(0, c)
       ELSE IF r.kind = "nosep" THEN Ret(-1, c)
       ELSE IF r.first = 0 THEN Ret(-1, c)
       ELSE Call(config[r.first].cb, r.key, r.value, c)

\* C9: a blank or "#" line succeeds and changes nothing; another line
\* without "=" fails; a key no table entry is a prefix of fails and changes
\* nothing; otherwise the line has the result and the effect of the handler
\* of the first table entry whose name is a prefix of the trimmed key.
C9_FirstPrefixEntryHandlesLine ==
    [][LineStep => LET e == Expected(last'.line, conf)
                   IN last'.ret = e.ret /\ conf' = e.conf]_vars

\* a key longer than the entry's name reached the entry's handler
C9_Witness ==
    /\ LastCb = "config_cgroup"
    /\ last.key = <<"l","x","c",".","c","g","r","o","u","p",".","c","p","u">>
    /\ last.ret = 0
    /\ conf.cgroup # << >>

\* C10: every IPv4 binding of every device has a prefix length in 0..32.
C10_PrefixLengthInRange ==
    \A d \in 1..Len(conf.network) :
        \A i \in 1..Len(conf.network[d].ipv4) :
            conf.network[d].ipv4[i].prefix \in 0..32

====
